---- MODULE Spec2Model ----
(***************************************************************************)
(* Model of the live session layer of the line-drawing capture game        *)
(* (src/src/server/new_index.ts).                                          *)
(*                                                                         *)
(* Spec follows one Room with its game state and turn timer: the make_move *)
(* / pause_game / leave_room / disconnect handlers, the interval callback  *)
(* that plays a forced move, the calls the room makes on the Game and User *)
(* collections, and the interval callback that evicts rooms.               *)
(*                                                                         *)
(* QueueSpec follows the matchmaking queue and the room registry: the      *)
(* join_queue handler with its awaits, and departures.  It keeps of every  *)
(* room its players map, which is all that join_queue reads of a room.     *)
(*                                                                         *)
(* The reference deployment sets GRID_SIZE = 6 and TURN_TIME = 30.  The    *)
(* model is checked on the smallest grid that has a region (a 2 x 2 point  *)
(* grid, one cell, so TOTAL_BOXES is odd as it is for 6) and with a        *)
(* two-tick turn.                                                          *)
(***************************************************************************)
EXTENDS Integers, Sequences, FiniteSets, TLC

\* ------------------------------------------------------------------------
\* Constants of the program (scaled, see above) and bounds of the model
\* ------------------------------------------------------------------------
TURN_TIME == 2
GRID_SIZE == 2
TOTAL_BOXES == (GRID_SIZE - 1) * (GRID_SIZE - 1)

\* The plain session pairs two sockets that both carry a userId, receives
\* the payloads of the stock client from its own players, has its collection
\* calls resolved and is never left alone for the cleanup interval.  MaxOdd
\* is how many events out of that course one session sees: an accepted
\* payload that the stock client would never send (a player tag that is not
\* the sender's, a reversed edge, an edge that is no unit edge of the grid),
\* a leave_room of a socket the room does not hold, a pairing of a socket
\* with itself or with a player without userId, a collection call that is
\* rejected, a period without activity as long as the cleanup interval.
MaxOdd == 1

Sockets == {"s1", "s2", "s3"}
\* QueueSpec: rooms created in all, and join_queue handlers that await the
\* user lookup at the same time
MaxRooms == 2
MaxJoining == 2
\* the id createAndJoinRoom draws (uuidv4).  A request names this id; it is
\* the id of no room before the room is registered and after it is deleted.
NewRoomId == "r1"
RoomIds == {NewRoomId}
\* the two players the join_queue handler shifts off the queue, first come
\* first: two sockets, or one socket that was enqueued twice.  The sockets
\* are interchangeable, so one arrival order is followed; the third socket
\* is bound to no room of Spec
Pairings == {<<"s1", "s2">>, <<"s1", "s1">>}
\* which of the paired Player objects carry a userId (joined with a phone)
UserIdChoices == {{"s1", "s2"}, {"s1"}}
PlayerNumbers == {1, 2}
\* winner: PlayerNumber | null
Null == 0

\* callback({ success: true }), callback({ success: false, message }) by
\* message, and "none" after a step that calls no callback
Failures == {"room_not_found", "not_in_room", "not_turn_or_inactive",
             "already_drawn"}

Coord(r, c) == [row |-> r, col |-> c]
Line(s, e, p) == [start |-> s, end |-> e, player |-> p]

VARIABLES
  gameRooms,      \* ids registered in the gameRooms map
  players,        \* room.players: socket id -> playerNumber
  lines,          \* gameState.lines
  boxes,          \* gameState.boxes
  currentPlayer,  \* gameState.currentPlayer
  scores,         \* gameState.scores
  gameStatus,     \* gameState.gameStatus
  winner,         \* gameState.winner
  isPaused,       \* gameState.isPaused
  timeLeft,       \* gameState.timeLeft
  turnTimer,      \* room.turnTimer is set (the interval is scheduled)
  intervals,      \* setInterval handles of the room not yet cleared
  reply,          \* what the last handler passed to its callback
  oddSent,        \* accepted payloads the stock client would not send
  userId,         \* sockets of room.players whose Player has a userId
  inactive,       \* room.isInactive(ROOM_CLEANUP_INTERVAL) would be true
  sweeping,       \* the eviction callback awaits room.saveGame()
  gameCreates,    \* outcomes of the Game.create calls made for the room
  statsUpdates,   \* player numbers User.findByIdAndUpdate was called for
  matchmakingQueue, \* QueueSpec: socket ids of the queued Players, in order
  roomPlayers,    \* QueueSpec: room.players of every room of the registry
  roomsCreated,   \* QueueSpec: how many room ids createAndJoinRoom has drawn
  joining,        \* QueueSpec: join_queue handlers awaiting the user lookup
  joiningGone     \* QueueSpec: those of them whose socket has disconnected

vars == <<gameRooms, players, lines, boxes, currentPlayer, scores,
          gameStatus, winner, isPaused, timeLeft, turnTimer, intervals, reply,
          oddSent,
          userId, inactive, sweeping, gameCreates, statsUpdates,
          matchmakingQueue, roomPlayers, roomsCreated, joining, joiningGone>>

\* what Spec leaves alone, and what QueueSpec leaves alone
queueVars == <<matchmakingQueue, roomPlayers, roomsCreated, joining,
               joiningGone>>
roomVars == <<gameRooms, players, lines, boxes, currentPlayer, scores,
              gameStatus, winner, isPaused, timeLeft, turnTimer, intervals,
              oddSent,
              userId, inactive, sweeping, gameCreates, statsUpdates>>

gameVars == <<lines, boxes, currentPlayer, scores, gameStatus, winner>>

\* what the room asked of the Game and the User collection
dbVars == <<gameCreates, statsUpdates>>

\* ------------------------------------------------------------------------
\* Board geometry (pure functions)
\* ------------------------------------------------------------------------

\* the predicate shared by isLineAlreadyDrawn and findLine
SameEdge(line, start, end) ==
  \/ /\ line.start.row = start.row /\ line.start.col = start.col
     /\ line.end.row = end.row /\ line.end.col = end.col
  \/ /\ line.start.row = end.row /\ line.start.col = end.col
     /\ line.end.row = start.row /\ line.end.col = start.col

SameEdgeOneWay(line, start, end) ==
  /\ line.start.row = start.row /\ line.start.col = start.col
  /\ line.end.row = end.row /\ line.end.col = end.col

isLineAlreadyDrawnOneWay(ls, move) ==
  \E i \in 1..Len(ls) : SameEdgeOneWay(ls[i], move.start, move.end)

isLineAlreadyDrawn(ls, move) ==
  \E i \in 1..Len(ls) : SameEdge(ls[i], move.start, move.end)

\* a findLine that matches a line only in the orientation asked for
findLineOneWay(ls, start, end) ==
  LET hits == {i \in 1..Len(ls) : SameEdgeOneWay(ls[i], start, end)}
  IN IF hits = {} THEN 0 ELSE CHOOSE i \in hits : \A j \in hits : i <= j

\* lines.find(...): the index of the first matching line, 0 for undefined
findLine(ls, start, end) ==
  LET hits == {i \in 1..Len(ls) : SameEdge(ls[i], start, end)}
  IN IF hits = {} THEN 0 ELSE CHOOSE i \in hits : \A j \in hits : i <= j

\* the reduce step: lines.indexOf(line) > lines.indexOf(latest) ? line : latest
Latest(latest, line) == IF line > latest THEN line ELSE latest

Earliest(latest, line) == IF line < latest THEN line ELSE latest

\* the cell with top-left corner topLeft: the index of its last drawn
\* bounding line, 0 when one of the four is missing
lastLineOfFirst(ls, topLeft) ==
  LET topRight == Coord(topLeft.row, topLeft.col + 1)
      bottomLeft == Coord(topLeft.row + 1, topLeft.col)
      bottomRight == Coord(topLeft.row + 1, topLeft.col + 1)
      topLine == findLine(ls, topLeft, topRight)
      rightLine == findLine(ls, topRight, bottomRight)
      bottomLine == findLine(ls, bottomLeft, bottomRight)
      leftLine == findLine(ls, topLeft, bottomLeft)
  IN IF topLine # 0 /\ rightLine # 0 /\ bottomLine # 0 /\ leftLine # 0
     THEN Earliest(Earliest(Earliest(topLine, rightLine), bottomLine), leftLine)
     ELSE 0

lastLineOf(ls, topLeft) ==
  LET topRight == Coord(topLeft.row, topLeft.col + 1)
      bottomLeft == Coord(topLeft.row + 1, topLeft.col)
      bottomRight == Coord(topLeft.row + 1, topLeft.col + 1)
      topLine == findLine(ls, topLeft, topRight)
      rightLine == findLine(ls, topRight, bottomRight)
      bottomLine == findLine(ls, bottomLeft, bottomRight)
      leftLine == findLine(ls, topLeft, bottomLeft)
  IN IF topLine # 0 /\ rightLine # 0 /\ bottomLine # 0 /\ leftLine # 0
     THEN Latest(Latest(Latest(topLine, rightLine), bottomLine), leftLine)
     ELSE 0

\* the cells in the order of the two loops (row, then col)
Cells ==
  [k \in 1..TOTAL_BOXES |->
     Coord((k - 1) \div (GRID_SIZE - 1), (k - 1) % (GRID_SIZE - 1))]

RECURSIVE boxesFrom(_, _)
boxesFrom(ls, k) ==
  IF k > TOTAL_BOXES THEN <<>>
  ELSE LET last == lastLineOf(ls, Cells[k])
       IN (IF last # 0
           THEN <<[topLeft |-> Cells[k], player |-> ls[last].player]>>
           ELSE <<>>) \o boxesFrom(ls, k + 1)

checkForBoxes(ls) == boxesFrom(ls, 1)

\* the candidates of getAvailableMoves in the order of its loops: for each
\* row, col the horizontal line (col < GRID_SIZE - 1), then the vertical one
\* (row < GRID_SIZE - 1)
RECURSIVE movesFrom(_, _, _)
movesFrom(ls, player, k) ==
  IF k >= GRID_SIZE * GRID_SIZE THEN <<>>
  ELSE LET row == k \div GRID_SIZE
           col == k % GRID_SIZE
           horizontalLine == Line(Coord(row, col), Coord(row, col + 1), player)
           verticalLine == Line(Coord(row, col), Coord(row + 1, col), player)
       IN (IF col < GRID_SIZE - 1 /\ ~isLineAlreadyDrawn(ls, horizontalLine)
           THEN <<horizontalLine>> ELSE <<>>)
          \o (IF row < GRID_SIZE - 1 /\ ~isLineAlreadyDrawn(ls, verticalLine)
              THEN <<verticalLine>> ELSE <<>>)
          \o movesFrom(ls, player, k + 1)

\* a getAvailableMoves that finds nothing
getAvailableMovesNone(ls, player) == <<>>

\* a getAvailableMoves that does not look at the lines drawn
getAvailableMovesAll(ls, player) == movesFrom(<<>>, player, 0)

getAvailableMoves(ls, player) == movesFrom(ls, player, 0)

\* ------------------------------------------------------------------------
\* The post-move logic shared by make_move and Room.makeRandomMove
\* ------------------------------------------------------------------------
Other(p) == IF p = 1 THEN 2 ELSE 1

\* scores[`player${n}`] += boxesCompleted, only when boxesCompleted > 0
scoresAfterAlways(sc, mover, boxesCompleted) ==
  [sc EXCEPT ![mover] = @ + 1]

scoresAfter(sc, mover, boxesCompleted) ==
  IF boxesCompleted > 0 THEN [sc EXCEPT ![mover] = @ + boxesCompleted] ELSE sc

\* currentPlayer is left alone on a capture, else it becomes the other player
turnAfterToggle(turn, mover, boxesCompleted) == Other(mover)

turnAfter(turn, mover, boxesCompleted) ==
  IF boxesCompleted > 0 THEN turn ELSE Other(mover)

winnerOfFirst(sc) == 1

winnerOfNone(sc) == Null

winnerOf(sc) ==
  IF sc[1] > sc[2] THEN 1 ELSE IF sc[2] > sc[1] THEN 2 ELSE Null

\* ------------------------------------------------------------------------
\* Inputs
\* ------------------------------------------------------------------------
Range(f) == {f[x] : x \in DOMAIN f}

\* what the stock client sends for player p: a unit edge of the grid, as
\* getAvailableMoves enumerates them, tagged with p
ClientMovesOf == [p \in PlayerNumbers |-> Range(getAvailableMoves(<<>>, p))]
ClientMoves(p) == ClientMovesOf[p]

Reversed(m) == Line(m.end, m.start, m.player)

\* payloads of the Line type that no stock client sends: a unit edge that
\* leaves the grid, and a diagonal
OutOfGrid(p) == Line(Coord(0, GRID_SIZE - 1), Coord(0, GRID_SIZE), p)
NonAdjacent(p) == Line(Coord(0, 0), Coord(1, 1), p)

\* the first edge of the grid, from its end to its start
FirstReversed(p) == Reversed(getAvailableMoves(<<>>, p)[1])

\* what a client bound to player number p is taken to send: the stock
\* payloads, the same with the other player's tag, one edge reversed, and
\* the two that are no unit edge of the grid
MovePayloadsOf ==
  [p \in PlayerNumbers |->
     ClientMoves(p) \cup ClientMoves(Other(p))
       \cup {FirstReversed(p), OutOfGrid(p), NonAdjacent(p)}]
MovePayloads(p) == MovePayloadsOf[p]

\* the player number of a socket that asks; a socket bound to no room sends
\* player 1's payloads
NumberOf(s) == IF s \in DOMAIN players THEN players[s] ELSE 1

IsOdd(move, p) == move \notin ClientMoves(p)

\* ------------------------------------------------------------------------
\* The room's calls on the collections
\* ------------------------------------------------------------------------
\* Room.getPlayerByNumber: the sockets of ps that hold the number ({} for
\* undefined)
getPlayerByNumber(ps, playerNumber) ==
  {s \in DOMAIN ps : ps[s] = playerNumber}

\* await Game.create / await User.findByIdAndUpdate resolves or rejects
Outcomes == {"stored", "failed"}

\* the calls that were rejected
Rejections(creates, updates) ==
  Cardinality({i \in 1..Len(creates) : creates[i] = "failed"})
    + (Len(updates) % 2)

\* events out of the ordinary course in this session, the handler that is
\* running included, before the call that is about to be made
OddSoFar(creates, updates) == oddSent' + Rejections(creates, updates)

\* Room.saveGame with ps bound: returns before Game.create unless both
\* player numbers are bound; a rejection is caught and logged
saveGame(ps) ==
  IF getPlayerByNumber(ps, 1) = {} \/ getPlayerByNumber(ps, 2) = {}
  THEN UNCHANGED gameCreates
  ELSE \E outcome \in Outcomes :
         /\ outcome = "failed" => OddSoFar(gameCreates, statsUpdates) < MaxOdd
         /\ gameCreates' = Append(gameCreates, outcome)

\* both players are bound and both carry a userId
bothHaveUserId(ps) ==
  /\ getPlayerByNumber(ps, 1) \cap userId # {}
  /\ getPlayerByNumber(ps, 2) \cap userId # {}

\* Room.updatePlayerStats with ps bound and the status just written: the
\* update for player 2 is awaited after the one for player 1, whose
\* rejection is caught and skips it
updatePlayerStats(ps, status) ==
  IF status # "ended" \/ ~bothHaveUserId(ps)
  THEN UNCHANGED statsUpdates
  ELSE \E outcome \in Outcomes :
         /\ outcome = "failed" => OddSoFar(gameCreates', statsUpdates) < MaxOdd
         /\ statsUpdates' = IF outcome = "failed"
                            THEN Append(statsUpdates, 1)
                            ELSE statsUpdates \o <<1, 2>>

\* an endGame that a rejected Game.create cuts short
endGameAborting(ps, status) ==
  /\ saveGame(ps)
  /\ IF gameCreates' # gameCreates /\ gameCreates'[Len(gameCreates')] = "failed"
     THEN UNCHANGED statsUpdates
     ELSE updatePlayerStats(ps, status)

\* Room.endGame
endGame(ps, status) == saveGame(ps) /\ updatePlayerStats(ps, status)

\* ------------------------------------------------------------------------
\* Init: the process after start-up, no room yet.  While no room is
\* registered the room fields hold the values the Room constructor gives
\* ------------------------------------------------------------------------
NoPlayers == [s \in {} |-> 1]

Init ==
  /\ gameRooms = {}
  /\ players = NoPlayers
  /\ lines = <<>>
  /\ boxes = <<>>
  /\ currentPlayer = 1
  /\ scores = [p \in PlayerNumbers |-> 0]
  /\ gameStatus = "waiting"
  /\ winner = Null
  /\ isPaused = FALSE
  /\ timeLeft = TURN_TIME
  /\ turnTimer = FALSE
  /\ intervals = 0
  /\ reply = "none"
  /\ oddSent = 0
  /\ userId = {}
  /\ inactive = FALSE
  /\ sweeping = FALSE
  /\ gameCreates = <<>>
  /\ statsUpdates = <<>>
  /\ matchmakingQueue = <<>>
  /\ roomPlayers = <<>>
  /\ roomsCreated = 0
  /\ joining = [s \in Sockets |-> 0]
  /\ joiningGone = [s \in Sockets |-> 0]

\* ------------------------------------------------------------------------
\* createAndJoinRoom([p1, p2]): new Room, both players added in queue
\* order, status active, turn timer started, room registered.  This
\* specification follows one Room object at a time: the next room is
\* created once the registry is empty again and nothing of the last room is
\* scheduled any more.
\* ------------------------------------------------------------------------
\* room.players after addPlayer(p1), addPlayer(p2): a Map keyed by socket
\* id, the later set wins
\* the slots the other way round (used to test the matchmaking property)
\* a clearTurnTimer that leaves the interval scheduled
clearTurnTimerKeeps(timer, n) == n

\* Room.clearTurnTimer on the number n of scheduled intervals: the one
\* this.turnTimer holds, if it holds one, is cleared
clearTurnTimer(timer, n) == IF timer THEN n - 1 ELSE n

\* Room.startTurnTimer: clearTurnTimer, then setInterval
startTurnTimer(timer, n) == clearTurnTimer(timer, n) + 1

playersOfSwapped(p1, p2) == [s \in {p1, p2} |-> IF s = p2 THEN 1 ELSE 2]

playersOf(p1, p2) == [s \in {p1, p2} |-> IF s = p2 THEN 2 ELSE 1]

createAndJoinRoom(p1, p2) ==
  /\ UNCHANGED queueVars
  /\ gameRooms = {}
  /\ ~sweeping
  /\ ~turnTimer
  /\ players' = playersOf(p1, p2)
  /\ \E ids \in UserIdChoices :
       /\ userId' = ids \cap {p1, p2}
       /\ oddSent' = IF p1 = p2 \/ userId' # {p1, p2} THEN 1 ELSE 0
  /\ oddSent' <= MaxOdd
  /\ inactive' = FALSE
  /\ UNCHANGED sweeping
  /\ gameCreates' = <<>>
  /\ statsUpdates' = <<>>
  /\ lines' = <<>>
  /\ boxes' = <<>>
  /\ currentPlayer' = 1
  /\ scores' = [p \in PlayerNumbers |-> 0]
  /\ winner' = Null
  /\ isPaused' = FALSE
  /\ gameStatus' = "active"
  /\ timeLeft' = TURN_TIME
  /\ turnTimer' = TRUE
  /\ intervals' = startTurnTimer(FALSE, intervals)
  /\ gameRooms' = {NewRoomId}
  /\ reply' = "none"

\* ------------------------------------------------------------------------
\* socket.on("make_move")
\* ------------------------------------------------------------------------
\* the three throws before the duplicate check
moveErrorNoStatus(s, roomId) ==
  IF roomId \notin gameRooms THEN "room_not_found"
  ELSE IF s \notin DOMAIN players THEN "not_in_room"
  ELSE IF currentPlayer # players[s]
       THEN "not_turn_or_inactive"
  ELSE "none"

moveError(s, roomId) ==
  IF roomId \notin gameRooms THEN "room_not_found"
  ELSE IF s \notin DOMAIN players THEN "not_in_room"
  ELSE IF currentPlayer # players[s] \/ gameStatus # "active"
       THEN "not_turn_or_inactive"
  ELSE "none"

\* the payloads followed for a request of s: make_move reads the move only
\* after the three throws, so a request that one of them turns down is
\* followed for one payload
RequestPayloads(s, roomId) ==
  IF moveError(s, roomId) = "none"
  THEN MovePayloads(NumberOf(s))
  ELSE {OutOfGrid(NumberOf(s))}

make_move(s, roomId, move) ==
  /\ UNCHANGED queueVars
  /\ UNCHANGED <<userId, sweeping>>
  /\ IF moveError(s, roomId) # "none"
     THEN /\ reply' = moveError(s, roomId)
          /\ UNCHANGED <<gameRooms, players, gameVars, isPaused,
                         timeLeft, turnTimer, intervals, oddSent, inactive,
                         dbVars>>
     ELSE IF isLineAlreadyDrawn(lines, move)
     THEN /\ reply' = "already_drawn"
          /\ UNCHANGED <<gameRooms, players, gameVars, isPaused,
                         timeLeft, turnTimer, intervals, oddSent, inactive,
                         dbVars>>
     ELSE LET mover == players[s]
              newLines == Append(lines, move)
              newBoxes == checkForBoxes(newLines)
              boxesCompleted == Len(newBoxes) - Len(boxes)
              newScores == scoresAfter(scores, mover, boxesCompleted)
              ended == Len(newBoxes) >= TOTAL_BOXES
          IN /\ IsOdd(move, mover) => oddSent < MaxOdd
             /\ oddSent' = IF IsOdd(move, mover) THEN oddSent + 1 ELSE oddSent
             /\ lines' = newLines
             /\ boxes' = newBoxes
             /\ scores' = newScores
             /\ currentPlayer' = turnAfter(currentPlayer, mover, boxesCompleted)
             /\ gameStatus' = IF ended THEN "ended" ELSE gameStatus
             /\ winner' = IF ended THEN winnerOf(newScores) ELSE winner
             \* clearTurnTimer, then startTurnTimer when still active
             /\ turnTimer' = ~ended
             /\ intervals' =
                  IF ended THEN clearTurnTimer(turnTimer, intervals)
                  ELSE startTurnTimer(FALSE,
                                      clearTurnTimer(turnTimer, intervals))
             /\ timeLeft' = IF ended THEN timeLeft ELSE TURN_TIME
             /\ reply' = "success"
             /\ inactive' = FALSE
             /\ IF ended THEN endGame(players, "ended")
                         ELSE UNCHANGED dbVars
             /\ UNCHANGED <<gameRooms, players, isPaused>>

\* ------------------------------------------------------------------------
\* The setInterval callback of Room.startTurnTimer, with makeRandomMove
\* ------------------------------------------------------------------------
turnTimerTick ==
  /\ UNCHANGED queueVars
  /\ intervals > 0
  /\ reply' = "none"
  /\ UNCHANGED <<gameRooms, players, isPaused, oddSent, userId, sweeping>>
  /\ IF timeLeft - 1 > 0
     THEN /\ timeLeft' = timeLeft - 1
          /\ UNCHANGED <<gameVars, turnTimer, intervals, inactive, dbVars>>
     ELSE IF gameStatus # "active"
     THEN /\ timeLeft' = timeLeft - 1
          /\ turnTimer' = FALSE
          /\ intervals' = clearTurnTimer(turnTimer, intervals)
          /\ UNCHANGED <<gameVars, inactive, dbVars>>
     ELSE LET availableMoves == getAvailableMoves(lines, currentPlayer)
          IN IF Len(availableMoves) = 0
             THEN \* makeRandomMove returns null; still active: restart
                  /\ timeLeft' = TURN_TIME
                  /\ turnTimer' = TRUE
                  /\ intervals' =
                       startTurnTimer(FALSE,
                                      clearTurnTimer(turnTimer, intervals))
                  /\ UNCHANGED <<gameVars, inactive, dbVars>>
             ELSE \E randomMoveIndex \in 1..Len(availableMoves) :
                    LET randomMove == availableMoves[randomMoveIndex]
                        newLines == Append(lines, randomMove)
                        newBoxes == checkForBoxes(newLines)
                        boxesCompleted == Len(newBoxes) - Len(boxes)
                        newScores ==
                          scoresAfter(scores, currentPlayer, boxesCompleted)
                        ended == Len(newBoxes) >= TOTAL_BOXES
                    IN /\ lines' = newLines
                       /\ boxes' = newBoxes
                       /\ scores' = newScores
                       /\ currentPlayer' =
                            turnAfter(currentPlayer, currentPlayer, boxesCompleted)
                       /\ gameStatus' = IF ended THEN "ended" ELSE gameStatus
                       /\ winner' = IF ended THEN winnerOf(newScores) ELSE winner
                       /\ turnTimer' = ~ended
                       /\ intervals' =
                            IF ended
                            THEN clearTurnTimer(turnTimer, intervals)
                            ELSE startTurnTimer(
                                   FALSE,
                                   clearTurnTimer(turnTimer, intervals))
                       /\ timeLeft' = IF ended THEN timeLeft - 1 ELSE TURN_TIME
                       /\ inactive' = FALSE
                       /\ IF ended THEN endGame(players, "ended")
                                   ELSE UNCHANGED dbVars

\* a resume that starts the timer whatever the status of the game
resumesTimerAlways(status) == TRUE

\* pause_game, when the game is no longer paused: the turn timer is started
\* again only for a game that is still active
resumesTimer(status) == status = "active"

\* ------------------------------------------------------------------------
\* socket.on("pause_game")
\* ------------------------------------------------------------------------
pause_game(s, roomId) ==
  /\ UNCHANGED queueVars
  /\ UNCHANGED <<gameRooms, players, gameVars, oddSent, userId, sweeping,
                 dbVars>>
  /\ IF roomId \notin gameRooms
     THEN /\ reply' = "room_not_found"
          /\ UNCHANGED <<isPaused, timeLeft, turnTimer, intervals, inactive>>
     ELSE IF s \notin DOMAIN players
     THEN /\ reply' = "not_in_room"
          /\ UNCHANGED <<isPaused, timeLeft, turnTimer, intervals, inactive>>
     ELSE /\ isPaused' = ~isPaused
          /\ inactive' = FALSE
          /\ IF isPaused'
             THEN /\ turnTimer' = FALSE
                  /\ intervals' = clearTurnTimer(turnTimer, intervals)
                  /\ UNCHANGED timeLeft
             ELSE IF resumesTimer(gameStatus)
             THEN /\ turnTimer' = TRUE
                  /\ intervals' = startTurnTimer(turnTimer, intervals)
                  /\ timeLeft' = TURN_TIME
             ELSE UNCHANGED <<timeLeft, turnTimer, intervals>>
          /\ reply' = "success"

\* ------------------------------------------------------------------------
\* handlePlayerLeaving(io, socketId, roomId) for a registered roomId
\* ------------------------------------------------------------------------
\* the winner left untouched (used to test the departure property)
winnerAfterLeavingKept(left, w) == w

\* lines 429-434: with one player left, that player's number
winnerAfterLeaving(left, w) ==
  IF Cardinality(DOMAIN left) = 1
  THEN left[CHOOSE s \in DOMAIN left : TRUE]
  ELSE w

handlePlayerLeaving(socketId, roomId) ==
  LET left == [s \in (DOMAIN players) \ {socketId} |-> players[s]]
  IN /\ userId' = userId \cap DOMAIN left
     /\ inactive' = FALSE
     /\ UNCHANGED sweeping
     /\ IF gameStatus = "active" THEN endGame(left, "ended")
                                ELSE UNCHANGED dbVars
     /\ IF DOMAIN left = {}
        THEN \* gameRooms.delete(roomId): no reference to the Room is left
             /\ gameRooms' = gameRooms \ {roomId}
             /\ players' = NoPlayers
             /\ lines' = <<>>
             /\ boxes' = <<>>
             /\ currentPlayer' = 1
             /\ scores' = [p \in PlayerNumbers |-> 0]
             /\ gameStatus' = "waiting"
             /\ winner' = Null
             /\ isPaused' = FALSE
             /\ timeLeft' = TURN_TIME
             /\ turnTimer' = FALSE
             /\ intervals' = IF gameStatus = "active"
                             THEN clearTurnTimer(turnTimer, intervals)
                             ELSE intervals
        ELSE /\ players' = left
             /\ IF gameStatus = "active"
                THEN /\ gameStatus' = "ended"
                     /\ winner' = winnerAfterLeaving(left, winner)
                     /\ turnTimer' = FALSE
                     /\ intervals' = clearTurnTimer(turnTimer, intervals)
                ELSE UNCHANGED <<gameStatus, winner, turnTimer, intervals>>
             /\ UNCHANGED <<gameRooms, lines, boxes, currentPlayer, scores,
                            isPaused, timeLeft>>

\* socket.on("leave_room")
leave_room(s, roomId) ==
  /\ UNCHANGED queueVars
  /\ IF roomId \notin gameRooms
     THEN /\ reply' = "room_not_found"
          /\ UNCHANGED <<gameRooms, players, gameVars, isPaused, timeLeft,
                         turnTimer, intervals, oddSent, userId, inactive,
                         sweeping,
                         dbVars>>
     ELSE /\ s \notin DOMAIN players => oddSent < MaxOdd
          /\ oddSent' = IF s \notin DOMAIN players THEN oddSent + 1
                                                   ELSE oddSent
          /\ handlePlayerLeaving(s, roomId)
          /\ reply' = "success"

\* socket.on("disconnect"): every registered room that has the socket.  The
\* socket id is gone for good; a later connection is a socket bound to no
\* room, which is what s is after this step.
disconnect(s) ==
  /\ UNCHANGED queueVars
  /\ reply' = "none"
  /\ UNCHANGED oddSent
  /\ IF gameRooms # {} /\ s \in DOMAIN players
     THEN handlePlayerLeaving(s, CHOOSE r \in gameRooms : TRUE)
     ELSE UNCHANGED <<gameRooms, players, gameVars, isPaused, timeLeft,
                      turnTimer, intervals, userId, inactive, sweeping, dbVars>>

\* ------------------------------------------------------------------------
\* The setInterval callback that evicts rooms (every 60 s)
\* ------------------------------------------------------------------------
\* Time passes without a handler touching the room until isInactive would
\* answer true.  A scheduled turn timer plays a forced move, which updates
\* lastActivityTime, every TURN_TIME seconds, well inside the threshold, so
\* a room gets there only with its timer cleared.
passTime ==
  /\ UNCHANGED queueVars
  /\ NewRoomId \in gameRooms
  /\ ~turnTimer
  /\ ~inactive
  /\ inactive' = TRUE
  /\ oddSent < MaxOdd
  /\ oddSent' = oddSent + 1
  /\ reply' = "none"
  /\ UNCHANGED <<gameRooms, players, gameVars, isPaused, timeLeft, turnTimer,
                 intervals,
                 userId, sweeping, dbVars>>

\* the Room object is referenced by nothing any more: its fields read as the
\* constructor leaves them
roomDropped ==
  /\ players' = NoPlayers
  /\ lines' = <<>>
  /\ boxes' = <<>>
  /\ currentPlayer' = 1
  /\ scores' = [p \in PlayerNumbers |-> 0]
  /\ gameStatus' = "waiting"
  /\ winner' = Null
  /\ isPaused' = FALSE
  /\ timeLeft' = TURN_TIME
  /\ turnTimer' = FALSE
  /\ userId' = {}
  /\ inactive' = FALSE

\* an eviction test that looks at the players only
evictableWhenEmpty(ps, idle) == DOMAIN ps = {}

\* line 769: room.isEmpty() || room.isInactive(ROOM_CLEANUP_INTERVAL)
evictable(ps, idle) == DOMAIN ps = {} \/ idle

\* the loop body up to the await: clearTurnTimer, then either saveGame gets
\* to await Game.create, or the room is deleted in the same run
sweep(roomId) ==
  /\ UNCHANGED queueVars
  /\ roomId \in gameRooms
  /\ ~sweeping
  /\ evictable(players, inactive)
  /\ reply' = "none"
  /\ UNCHANGED <<oddSent, statsUpdates>>
  /\ intervals' = clearTurnTimer(turnTimer, intervals)
  /\ IF gameStatus = "active" /\ Len(lines) > 0
     THEN saveGame(players)
     ELSE UNCHANGED gameCreates
  /\ IF gameCreates' # gameCreates
     THEN /\ sweeping' = TRUE
          /\ turnTimer' = FALSE
          /\ UNCHANGED <<gameRooms, players, gameVars, isPaused, timeLeft,
                         userId, inactive>>
     ELSE /\ sweeping' = FALSE
          /\ gameRooms' = gameRooms \ {roomId}
          /\ roomDropped

\* after the await: gameRooms.delete(roomId).  A turn timer that a handler
\* started in the meantime still holds the Room
sweepFinish ==
  /\ UNCHANGED queueVars
  /\ sweeping
  /\ sweeping' = FALSE
  /\ gameRooms' = gameRooms \ {NewRoomId}
  /\ reply' = "none"
  /\ UNCHANGED <<oddSent, dbVars>>
  /\ IF turnTimer
     THEN UNCHANGED <<players, gameVars, isPaused, timeLeft, turnTimer,
                      intervals,
                      userId, inactive>>
     ELSE roomDropped /\ UNCHANGED intervals

\* ------------------------------------------------------------------------
Next ==
  \/ \E pair \in Pairings : createAndJoinRoom(pair[1], pair[2])
  \/ passTime
  \/ \E roomId \in RoomIds : sweep(roomId)
  \/ sweepFinish
  \/ \E s \in Sockets, roomId \in RoomIds :
       \E move \in RequestPayloads(s, roomId) : make_move(s, roomId, move)
  \/ turnTimerTick
  \/ \E s \in Sockets, roomId \in RoomIds : pause_game(s, roomId)
  \/ \E s \in Sockets, roomId \in RoomIds : leave_room(s, roomId)
  \/ \E s \in Sockets : disconnect(s)

Spec == Init /\ [][Next]_vars

\* ------------------------------------------------------------------------
\* LiveSpec: the room in the plain course, with the clock and the sweeper
\* kept going
\* ------------------------------------------------------------------------
\* ROOM_CLEANUP_INTERVAL goes by without a handler touching the room
roomIdles ==
  /\ UNCHANGED queueVars
  /\ NewRoomId \in gameRooms
  /\ ~turnTimer
  /\ ~inactive
  /\ inactive' = TRUE
  /\ reply' = "none"
  /\ UNCHANGED <<gameRooms, players, gameVars, isPaused, timeLeft, turnTimer,
                 intervals, oddSent, userId, sweeping, dbVars>>

LiveNext ==
  \/ createAndJoinRoom("s1", "s2") /\ oddSent' = 0
  \/ roomIdles
  \/ sweep(NewRoomId)
  \/ sweepFinish
  \/ \E s \in Sockets :
       \E move \in ClientMoves(NumberOf(s)) : make_move(s, NewRoomId, move)
  \/ turnTimerTick
  \/ \E s \in Sockets : pause_game(s, NewRoomId)
  \/ \E s \in Sockets : leave_room(s, NewRoomId) /\ oddSent' = 0
  \/ \E s \in Sockets : disconnect(s)

\* the clock advances, the eviction callback runs every minute and its
\* await on Game.create returns
LiveSpec ==
  /\ Init
  /\ [][LiveNext]_vars
  /\ WF_vars(roomIdles)
  /\ WF_vars(sweep(NewRoomId))
  /\ WF_vars(sweepFinish)

\* ------------------------------------------------------------------------
\* TimerSpec: a room whose players neither pause nor leave; the interval
\* of the turn timer fires every second while it is scheduled
\* ------------------------------------------------------------------------
TimerNext ==
  \/ createAndJoinRoom("s1", "s2") /\ oddSent' = 0
  \/ \E s \in Sockets :
       \E move \in ClientMoves(NumberOf(s)) : make_move(s, NewRoomId, move)
  \/ turnTimerTick

\* a firing of the interval that only counts down
countdown == timeLeft > 1 /\ turnTimerTick

\* a firing of the interval that finds the time used up
expiry == timeLeft <= 1 /\ turnTimerTick

\* weak fairness of expiry, written out: expiry is enabled exactly when an
\* interval is scheduled and one second is left
expiryFair ==
  \/ []<>(~(intervals > 0 /\ timeLeft <= 1))
  \/ []<><<expiry>>_vars

TimerSpec ==
  Init /\ [][TimerNext]_vars /\ WF_vars(countdown) /\ expiryFair

\* ------------------------------------------------------------------------
\* QueueSpec: the matchmaking queue and the registry
\* ------------------------------------------------------------------------
\* the rooms of the registry whose players map has the socket
RoomsOf(s) == {id \in DOMAIN roomPlayers : s \in DOMAIN roomPlayers[id]}

\* matchmakingQueue.findIndex(p => p.socketId === socket.id), 0 for -1
queueIndex(q, s) ==
  IF \E i \in 1..Len(q) : q[i] = s
  THEN CHOOSE i \in 1..Len(q) : q[i] = s /\ \A j \in 1..(i - 1) : q[j] # s
  ELSE 0

\* lines 553-563: push and callback; with two queued, shift both and
\* createAndJoinRoom([player1, player2]) under the next room id
enqueue(s) ==
  LET queued == Append(matchmakingQueue, s)
      roomId == roomsCreated + 1
  IN /\ reply' = "queued"
     /\ IF Len(queued) >= 2
        THEN /\ roomsCreated < MaxRooms
             /\ roomsCreated' = roomId
             /\ roomPlayers' =
                  [id \in DOMAIN roomPlayers \cup {roomId} |->
                     IF id = roomId THEN playersOf(queued[1], queued[2])
                                    ELSE roomPlayers[id]]
             /\ matchmakingQueue' = SubSeq(queued, 3, Len(queued))
        ELSE /\ matchmakingQueue' = queued
             /\ UNCHANGED <<roomPlayers, roomsCreated>>

InFlight ==
  joining["s1"] + joining["s2"] + joining["s3"]
    + joiningGone["s1"] + joiningGone["s2"] + joiningGone["s3"]

\* socket.on("join_queue") up to its first await.  The return of the
\* forEach callback (line 520) leaves the callback, not the handler; with
\* no phone there is no await and the handler runs to its end
join_queue(s, phone) ==
  /\ UNCHANGED <<roomVars, joiningGone>>
  /\ IF queueIndex(matchmakingQueue, s) # 0
     THEN /\ reply' = "already_queued"
          /\ UNCHANGED <<matchmakingQueue, roomPlayers, roomsCreated, joining>>
     ELSE IF phone
     THEN /\ InFlight < MaxJoining
          /\ joining' = [joining EXCEPT ![s] = @ + 1]
          /\ reply' = IF RoomsOf(s) # {} THEN "already_in_room" ELSE "none"
          /\ UNCHANGED <<matchmakingQueue, roomPlayers, roomsCreated>>
     ELSE enqueue(s) /\ UNCHANGED joining

\* the handler after its awaits on the User collection (lines 527-540): a
\* rejection goes to the catch, otherwise the Player is enqueued
afterLookup(s) ==
  \E outcome \in Outcomes :
    IF outcome = "failed"
    THEN /\ reply' = "join_failed"
         /\ UNCHANGED <<matchmakingQueue, roomPlayers, roomsCreated>>
    ELSE enqueue(s)

join_queue_resumed(s) ==
  /\ UNCHANGED <<roomVars, joiningGone>>
  /\ joining[s] > 0
  /\ joining' = [joining EXCEPT ![s] = @ - 1]
  /\ afterLookup(s)

\* the same for a handler whose socket has disconnected in the meantime:
\* nothing in lines 541-563 looks at socket.connected
join_queue_resumed_gone(s) ==
  /\ UNCHANGED <<roomVars, joining>>
  /\ joiningGone[s] > 0
  /\ joiningGone' = [joiningGone EXCEPT ![s] = @ - 1]
  /\ afterLookup(s)

\* handlePlayerLeaving for socket s in each room of ids, as far as the
\* registry goes: removePlayer, and gameRooms.delete once the room is empty
roomsAfterLeaving(s, ids) ==
  [id \in {i \in DOMAIN roomPlayers :
             ~(i \in ids /\ DOMAIN roomPlayers[i] \subseteq {s})} |->
     IF id \in ids
     THEN [t \in DOMAIN roomPlayers[id] \ {s} |-> roomPlayers[id][t]]
     ELSE roomPlayers[id]]

\* socket.on("leave_room") in QueueSpec
leave_roomQ(s, roomId) ==
  /\ UNCHANGED <<roomVars, matchmakingQueue, roomsCreated, joining,
                 joiningGone>>
  /\ IF roomId \notin DOMAIN roomPlayers
     THEN reply' = "room_not_found" /\ UNCHANGED roomPlayers
     ELSE reply' = "success" /\ roomPlayers' = roomsAfterLeaving(s, {roomId})

\* socket.on("disconnect") in QueueSpec: the first queue entry of the socket
\* is spliced out, and the socket leaves every room that has it
disconnectQ(s) ==
  LET i == queueIndex(matchmakingQueue, s)
  IN /\ UNCHANGED <<roomVars, roomsCreated>>
     /\ joining' = [joining EXCEPT ![s] = 0]
     /\ joiningGone' = [joiningGone EXCEPT ![s] = @ + joining[s]]
     /\ reply' = "none"
     /\ matchmakingQueue' =
          IF i = 0 THEN matchmakingQueue
          ELSE SubSeq(matchmakingQueue, 1, i - 1)
                 \o SubSeq(matchmakingQueue, i + 1, Len(matchmakingQueue))
     /\ roomPlayers' = roomsAfterLeaving(s, RoomsOf(s))

QueueNext ==
  \/ \E s \in Sockets, phone \in BOOLEAN : join_queue(s, phone)
  \/ \E s \in Sockets : join_queue_resumed(s)
  \/ \E s \in Sockets : join_queue_resumed_gone(s)
  \/ \E s \in Sockets, roomId \in 1..MaxRooms : leave_roomQ(s, roomId)
  \/ \E s \in Sockets : disconnectQ(s)

QueueSpec == Init /\ [][QueueNext]_vars

\* ========================================================================
\* Properties
\* ========================================================================
Registered == NewRoomId \in gameRooms

\* a step that appends a line (a submitted or a forced move was applied)
MoveApplied == Len(lines') = Len(lines) + 1

\* the socket's request was accepted by make_move in this step
Submitted(s, move) == make_move(s, NewRoomId, move) /\ reply' = "success"

\* the interval callback played a forced move in this step
Forced == turnTimerTick /\ MoveApplied

\* the line a move step appended
Appended == lines'[Len(lines')]

\* C1: in every reachable state the two scores add up to the number of
\* boxes of the session, which is the number of closed regions that
\* checkForBoxes computes from the session's lines.
C1_ScoreSum ==
  /\ scores[1] + scores[2] = Len(boxes)
  /\ Len(boxes) = Len(checkForBoxes(lines))

\* a move has been applied and closed a region
C1_Witness ==
  /\ Registered
  /\ Len(lines) >= 4
  /\ Len(boxes) = 1
  /\ scores[1] + scores[2] = 1

\* C2: the capture rule for the move of player mover: with no newly closed
\* region the turn passes to the other player and no score changes; with
\* delta > 0 newly closed regions the turn stays with the mover, whose score
\* grows by exactly delta.
CaptureRule(mover) ==
  LET delta == Len(checkForBoxes(lines')) - Len(checkForBoxes(lines))
  IN /\ gameStatus = "active"
     /\ IF delta = 0
        THEN currentPlayer' = Other(mover) /\ scores' = scores
        ELSE /\ delta > 0
             /\ currentPlayer' = mover
             /\ scores'[mover] = scores[mover] + delta
             /\ scores'[Other(mover)] = scores[Other(mover)]

\* C2: every applied move, submitted by a player (the mover is the sender)
\* or forced by the timer (the mover is the player whose turn ran out),
\* follows the capture rule.
C2_TurnRule ==
  [][MoveApplied =>
       /\ \A s \in Sockets : Submitted(s, Appended) => CaptureRule(players[s])
       /\ Forced => CaptureRule(currentPlayer)
       /\ Forced \/ \E s \in Sockets : Submitted(s, Appended)]_vars

\* a capturing move has been applied: the mover kept the turn and scored
C2_Witness ==
  /\ Registered
  /\ Len(boxes) = 1
  /\ scores[currentPlayer] = 1
  /\ scores[Other(currentPlayer)] = 0

\* ------------------------------------------------------------------------
\* the four bounding edges of the cell with top-left corner c, as point pairs
EdgesOf(c) ==
  {{Coord(c.row, c.col), Coord(c.row, c.col + 1)},
   {Coord(c.row, c.col + 1), Coord(c.row + 1, c.col + 1)},
   {Coord(c.row + 1, c.col), Coord(c.row + 1, c.col + 1)},
   {Coord(c.row, c.col), Coord(c.row + 1, c.col)}}

\* the positions in ls of the lines that lie on a bounding edge of cell c
OnCell(ls, c) == {i \in 1..Len(ls) : {ls[i].start, ls[i].end} \in EdgesOf(c)}

Closed(ls, c) == \A e \in EdgesOf(c) : \E i \in 1..Len(ls) : {ls[i].start, ls[i].end} = e

MaxOf(S) == CHOOSE i \in S : \A j \in S : j <= i

\* C3 (owner): checkForBoxes reports exactly the cells whose four bounding
\* edges are drawn, and the owner of each is the player stored on whichever
\* of its bounding lines was inserted last.
LastEdgeWins ==
  LET found == checkForBoxes(lines)
  IN /\ \A c \in Range(Cells) :
          Closed(lines, c) <=> \E k \in 1..Len(found) : found[k].topLeft = c
     /\ \A k \in 1..Len(found) :
          found[k].player = lines[MaxOf(OnCell(lines, found[k].topLeft))].player

\* C3 (scenario): three edges of the top-left cell carry player 1, the score
\* is 0:0 and player 2, whose turn it is, draws the closing edge.
ScenarioBefore ==
  LET on == OnCell(lines, Coord(0, 0))
  IN /\ Cardinality(on) = 3
     /\ \A i \in on : lines[i].player = 1
     /\ scores = [p \in PlayerNumbers |-> 0]
     /\ currentPlayer = 2
     /\ Appended.player = 2
     /\ Closed(lines', Coord(0, 0))
     /\ Len(checkForBoxes(lines')) = 1

ScenarioAfter ==
  /\ boxes' = <<[topLeft |-> Coord(0, 0), player |-> 2]>>
  /\ scores' = [p \in PlayerNumbers |-> IF p = 2 THEN 1 ELSE 0]
  /\ currentPlayer' = 2

\* C3: over every sequence of applied moves the number of closed regions
\* never decreases, every region is owned by the player of its last
\* inserted bounding edge, and the closing edge of player 2 on a cell whose
\* other three edges are player 1's gives one region owned by player 2, the
\* score 0:1 and the turn to player 2.
C3_LastEdgeWins ==
  /\ []LastEdgeWins
  /\ [][MoveApplied =>
          /\ Len(checkForBoxes(lines')) >= Len(checkForBoxes(lines))
          /\ ScenarioBefore => ScenarioAfter]_vars

\* the scenario has been played
C3_Witness ==
  /\ Registered
  /\ boxes = <<[topLeft |-> Coord(0, 0), player |-> 2]>>
  /\ scores = [p \in PlayerNumbers |-> IF p = 2 THEN 1 ELSE 0]
  /\ currentPlayer = 2
  /\ Cardinality({i \in OnCell(lines, Coord(0, 0)) : lines[i].player = 1}) = 3
  /\ lines[Len(lines)].player = 2

\* ------------------------------------------------------------------------
Owned(p) == {k \in 1..Len(boxes) : boxes[k].player = p}

\* C4: each player's score is the number of closed regions that player owns.
C4_ScoreIsOwned ==
  \A p \in PlayerNumbers : scores[p] = Cardinality(Owned(p))

\* ------------------------------------------------------------------------
AllPayloads == UNION {MovePayloads(p) : p \in PlayerNumbers}

DrawnEitherWay(move) ==
  \E i \in 1..Len(lines) : {lines[i].start, lines[i].end} = {move.start, move.end}

\* the sender passes every check of make_move that precedes the duplicate
\* check
MayMove(s) ==
  /\ Registered
  /\ s \in DOMAIN players
  /\ players[s] = currentPlayer
  /\ gameStatus = "active"

Rejected ==
  /\ reply' \in Failures
  /\ UNCHANGED <<gameRooms, players, gameVars, isPaused, timeLeft, turnTimer>>

\* every drawn line, sent again as it is and reversed
Duplicates == UNION {{lines[i], Reversed(lines[i])} : i \in 1..Len(lines)}

\* C5 (state): isLineAlreadyDrawn answers the same for an edge and for its
\* reverse, and no edge is in lines twice, in either orientation.
NoDuplicateEdge ==
  /\ \A move \in AllPayloads :
       /\ isLineAlreadyDrawn(lines, move) = isLineAlreadyDrawn(lines, Reversed(move))
       /\ isLineAlreadyDrawn(lines, move) = DrawnEitherWay(move)
  /\ \A i, j \in 1..Len(lines) :
       i # j => {lines[i].start, lines[i].end} # {lines[j].start, lines[j].end}

\* C5: edge equality disregards direction; a step that handles a make_move
\* of a sender who passes the checks before the duplicate check, for an edge
\* that is in lines in either orientation, is a rejection with the duplicate
\* message that changes nothing; lines never holds an edge twice.
C5_Symmetric ==
  /\ []NoDuplicateEdge
  /\ [][\A s \in Sockets :
          MayMove(s) =>
            \/ Rejected /\ reply' = "already_drawn"
            \/ \A move \in Duplicates : ~make_move(s, NewRoomId, move)]_vars

\* a request for a drawn edge, which the player whose turn it is can send
\* reversed, was turned down as a duplicate
C5_Witness ==
  /\ Registered
  /\ reply = "already_drawn"
  /\ gameStatus = "active"
  /\ Len(lines) = 1
  /\ \E move \in MovePayloads(currentPlayer) :
       move.start = lines[1].end /\ move.end = lines[1].start

\* ------------------------------------------------------------------------
HigherScorer(sc) ==
  CASE sc[1] > sc[2] -> 1
    [] sc[2] > sc[1] -> 2
    [] OTHER -> Null

\* C6: the applied move that brings the number of closed regions to
\* (GRID_SIZE - 1)^2 ends the game in the same step: the status is ended,
\* no turn timer is scheduled, and the winner is the strictly higher
\* scorer, or null on equal scores.
C6_Termination ==
  [][(MoveApplied /\ Len(checkForBoxes(lines')) = TOTAL_BOXES) =>
       /\ gameStatus' = "ended"
       /\ ~turnTimer'
       /\ winner' = HigherScorer(scores')]_vars

\* the grid was exhausted by player 2
C6_Witness ==
  /\ Registered
  /\ Len(checkForBoxes(lines)) = TOTAL_BOXES
  /\ gameStatus = "ended"
  /\ winner = 2
  /\ scores[2] > scores[1]
  /\ ~turnTimer

\* ------------------------------------------------------------------------
\* C7: while the game is paused, a make_move of the player whose turn it is
\* for an edge of the grid that is not drawn is rejected, and the lines, the
\* regions, the scores, the turn and the stopped timer stay as they are.
C7_PausedRejects ==
  [][\A s \in Sockets :
       (isPaused /\ MayMove(s)) =>
         \A move \in ClientMoves(currentPlayer) :
           (~DrawnEitherWay(move) /\ make_move(s, NewRoomId, move)) =>
             /\ reply' \in Failures
             /\ UNCHANGED <<lines, boxes, scores, currentPlayer, turnTimer>>]_vars

\* ------------------------------------------------------------------------
InGrid(c) ==
  /\ 0 <= c.row /\ c.row < GRID_SIZE
  /\ 0 <= c.col /\ c.col < GRID_SIZE

UnitEdge(l) ==
  \/ l.start.row = l.end.row /\ (l.end.col - l.start.col) \in {-1, 1}
  \/ l.start.col = l.end.col /\ (l.end.row - l.start.row) \in {-1, 1}

\* C8: every stored line is a horizontal or vertical unit edge between two
\* points of the grid (a make_move for anything else appends nothing).
C8_LinesInGrid ==
  \A i \in 1..Len(lines) :
    InGrid(lines[i].start) /\ InGrid(lines[i].end) /\ UnitEdge(lines[i])

\* ------------------------------------------------------------------------
\* the request of s names an unknown room, or a room whose game is not
\* active, or s is a player of the room and it is the other player's turn
NotAllowed(s) ==
  \/ ~Registered
  \/ gameStatus # "active"
  \/ s \in DOMAIN players /\ players[s] # currentPlayer

Untouched ==
  UNCHANGED <<gameRooms, lines, boxes, scores, currentPlayer, gameStatus,
              winner, timeLeft, turnTimer>>

\* C9: a step that handles a make_move of a sender who is not allowed to
\* move reports a failure to the caller (room not found for an unknown
\* room) and leaves lines, regions, scores, turn, status, winner, timeLeft
\* and the timer as they are.
C9_RejectedUntouched ==
  [][\A s \in Sockets :
       NotAllowed(s) =>
         \/ /\ reply' \in Failures
            /\ ~Registered => reply' = "room_not_found"
            /\ Untouched
         \/ \A move \in AllPayloads : ~make_move(s, NewRoomId, move)]_vars

\* a request out of turn was turned down while the timer kept counting
C9_Witness ==
  /\ Registered
  /\ reply = "not_turn_or_inactive"
  /\ gameStatus = "active"
  /\ turnTimer
  /\ timeLeft < TURN_TIME
  /\ Len(lines) > 0

\* ------------------------------------------------------------------------
\* C10: in every state of a registered session the turn timer is scheduled
\* exactly when the game is active and not paused.
C10_TimerIffActive ==
  Registered => (turnTimer <=> (gameStatus = "active" /\ ~isPaused))

\* ------------------------------------------------------------------------
\* Departures
\* ------------------------------------------------------------------------
\* socket s, bound to the registered room, leaves it in this step
Departs(s) ==
  /\ Registered
  /\ s \in DOMAIN players
  /\ leave_room(s, NewRoomId) \/ disconnect(s)

TwoPlayerActive ==
  Registered /\ gameStatus = "active" /\ Cardinality(DOMAIN players) = 2

EntersEnded == gameStatus = "active" /\ gameStatus' = "ended"

\* the player numbers bound before the step whose Player carries a userId
WithUserId == {players[s] : s \in userId \cap DOMAIN players}

\* the calls the step adds
NewCreates == Len(gameCreates') - Len(gameCreates)
NewUpdates ==
  {statsUpdates'[i] : i \in (Len(statsUpdates) + 1)..Len(statsUpdates')}

\* C12: every step that takes a session to ended, by exhausting the grid or
\* by a departure from an active game, reaches Game.create exactly once and
\* requests the statistics update for each player that carries a userId.
C12_EndPersistsOnce ==
  [][EntersEnded => (NewCreates = 1 /\ WithUserId \subseteq NewUpdates)]_vars

\* ------------------------------------------------------------------------
\* Matchmaking (QueueSpec)
\* ------------------------------------------------------------------------
\* the step pushes a Player of socket s onto the queue
Pushes(s) ==
  /\ Len(matchmakingQueue') # Len(matchmakingQueue)
  /\ \/ queueIndex(matchmakingQueue, s) = 0 /\ join_queue(s, FALSE)
     \/ join_queue_resumed(s) /\ reply' = "queued"

NewRooms == DOMAIN roomPlayers' \ DOMAIN roomPlayers

\* C13: matchmaking is first come first served and greedy.  A player pushed
\* onto an empty queue waits alone; a player pushed behind a waiting one is
\* paired with it at once, the one that waited as player 1 and the newcomer
\* as player 2, and the queue is empty again; so with A, B, C, D joining in
\* this order A-B and C-D are paired, and the queue never holds more than
\* one player once a handler is done.
C13_FifoGreedy ==
  /\ [](Len(matchmakingQueue) <= 1)
  /\ [][\A s \in Sockets :
          Pushes(s) =>
            IF matchmakingQueue = <<>>
            THEN matchmakingQueue' = <<s>> /\ roomPlayers' = roomPlayers
            ELSE LET first == Head(matchmakingQueue)
                 IN /\ matchmakingQueue' = <<>>
                    /\ Cardinality(NewRooms) = 1
                    /\ \A id \in DOMAIN roomPlayers : id \in DOMAIN roomPlayers'
                         /\ roomPlayers'[id] = roomPlayers[id]
                    /\ first # s =>
                         \A id \in NewRooms :
                           roomPlayers'[id] = (first :> 1) @@ (s :> 2)]_vars

\* s1, s2, s3 joined in this order and s3 waited; the connection that joined
\* next (it took the place of s1, which had left the first room) is
\* player 2 behind s3 in the second room
C13_Witness ==
  /\ matchmakingQueue = <<>>
  /\ DOMAIN roomPlayers = {1, 2}
  /\ roomPlayers[1] = ("s2" :> 2)
  /\ roomPlayers[2] = ("s3" :> 1) @@ ("s1" :> 2)

\* the socket has a Player in the queue
Queued(s) == queueIndex(matchmakingQueue, s) # 0

\* C14: a socket that is bound to a room of the registry is turned down by
\* join_queue: it is not put on the queue and never paired into a second
\* room, so no socket is in the queue while bound, or bound to two rooms.
C14_BoundNotQueued ==
  \A s \in Sockets :
    /\ Cardinality(RoomsOf(s)) <= 1
    /\ Queued(s) => RoomsOf(s) = {}

\* ------------------------------------------------------------------------
\* C15: the queue never holds two Players of one socket, and no room is
\* created with one socket in both slots, whatever the interleaving of the
\* join_queue handlers, two requests of one connection that overlap at the
\* awaits of the user lookup included.
C15_NoSelfPairing ==
  /\ [](\A i, j \in 1..Len(matchmakingQueue) :
          matchmakingQueue[i] = matchmakingQueue[j] => i = j)
  /\ [][\A id \in NewRooms :
          Cardinality(DOMAIN roomPlayers'[id]) = 2]_vars

\* C16: the sweeper's branch for a registered room without players.  At
\* every handler boundary a registered room has a player:
\* createAndJoinRoom registers a room with its players in one step, and
\* handlePlayerLeaving deletes the room in the step that removes its last
\* player, so the sweeper never finds a registered room that is empty.
C16_RegisteredRoomHasPlayer ==
  Registered => DOMAIN players # {}

\* the same in the registry of the queue specification
C16_RegistryRoomsHavePlayers ==
  \A id \in DOMAIN roomPlayers : DOMAIN roomPlayers[id] # {}

\* a step of the sweeper that takes the room out of the registry
Evicts ==
  /\ NewRoomId \in gameRooms
  /\ NewRoomId \notin gameRooms'
  /\ sweep(NewRoomId) \/ sweepFinish

\* C17: when the sweeper evicts a room that has bound players and at least
\* one recorded line, Game.create has been called exactly once for the room,
\* counting the call of endGame.
C17_IdlePersistedOnce ==
  [][(Evicts /\ DOMAIN players # {} /\ Len(lines) > 0)
       => Len(gameCreates') = 1]_vars

\* the half of C17 that does not depend on what a departure persists: no
\* room is evicted after two calls of Game.create
C17_NotTwice ==
  [][Evicts => Len(gameCreates') <= 1]_vars

\* a leave_room for the registered room from a socket the room does not
\* have
NonMemberLeaves(s) ==
  /\ Registered
  /\ s \notin DOMAIN players
  /\ leave_room(s, NewRoomId)

\* C18: a leave_room from a socket that is not in the room is answered
\* with a failure and leaves the room's status, winner, players and turn
\* timer as they are.
C18_NonMemberLeaveRejected ==
  [][\A s \in Sockets :
       NonMemberLeaves(s) =>
         /\ reply' \in Failures
         /\ UNCHANGED <<gameStatus, winner, players, turnTimer>>]_vars

\* C19: an ended game has no turn timer, and while its room stays in the
\* registry (or stays out of it) no step changes its status, lines, boxes,
\* scores or winner.
C19_EndedTerminal ==
  /\ [](gameStatus = "ended" => ~turnTimer)
  /\ [][(gameStatus = "ended" /\ gameRooms' = gameRooms)
          => UNCHANGED <<gameStatus, lines, boxes, scores, winner>>]_vars

\* the board was completed and afterwards a player left: the result of the
\* game still stands and no timer runs
C19_Witness ==
  /\ Registered
  /\ gameStatus = "ended"
  /\ Len(boxes) = TOTAL_BOXES
  /\ Cardinality(DOMAIN players) = 1
  /\ winner = winnerOf(scores)
  /\ ~turnTimer

\* the step called Game.create and the call was rejected
CreateFailed ==
  /\ Len(gameCreates') = Len(gameCreates) + 1
  /\ gameCreates'[Len(gameCreates')] = "failed"

\* the step updated the statistics of player 1 only: the update was rejected
StatsFailed == Len(statsUpdates') = Len(statsUpdates) + 1

\* C20: a step that ends the game and has its Game.create or its statistics
\* update rejected leaves the room as a step without rejection does: status
\* ended, timer cleared, boxes and scores those of the lines, the winner
\* the one of the scores (of the departure for an unfinished board), no
\* failure reported to the caller; and a rejected Game.create does not keep
\* the statistics update from being made.
C20_FailureCaught ==
  [][(EntersEnded /\ (CreateFailed \/ StatsFailed)) =>
       /\ reply' \notin Failures
       /\ ~turnTimer'
       /\ Len(boxes') = Len(checkForBoxes(lines'))
       /\ scores'[1] + scores'[2] = Len(boxes')
       /\ winner' = IF Len(boxes') >= TOTAL_BOXES
                    THEN winnerOf(scores')
                    ELSE winnerAfterLeaving(players', winner)
       /\ (CreateFailed /\ bothHaveUserId(players))
            => statsUpdates' # statsUpdates]_vars

\* a finished game whose record was rejected and whose statistics were
\* updated all the same, the mover informed of success
C20_Witness ==
  /\ Registered
  /\ gameStatus = "ended"
  /\ Len(boxes) = TOTAL_BOXES
  /\ winner = winnerOf(scores)
  /\ gameCreates = <<"failed">>
  /\ statsUpdates = <<1, 2>>
  /\ reply = "success"

\* a finished game whose statistics update was rejected after the record
\* was stored
C20_WitnessStats ==
  /\ Registered
  /\ gameStatus = "ended"
  /\ Len(boxes) = TOTAL_BOXES
  /\ gameCreates = <<"stored">>
  /\ statsUpdates = <<1>>
  /\ reply = "success"

\* ------------------------------------------------------------------------
\* C21: a step in which the timer callback appends a line starts in a state
\* where the game is active and not paused.
C21_ForcedOnlyUnpaused ==
  [][Forced => (gameStatus = "active" /\ ~isPaused)]_vars

\* ------------------------------------------------------------------------
\* a pause_game of a socket the registered room has
Toggles(s) ==
  /\ Registered
  /\ s \in DOMAIN players
  /\ pause_game(s, NewRoomId)

\* the effect of one pause_game: the flag is flipped; lines, boxes, scores,
\* turn, status and winner stay; a pause clears the timer and keeps
\* timeLeft; a resume of an active game starts the timer with
\* timeLeft = TURN_TIME
C22_ToggleFrame ==
  [][\A s \in Sockets :
       Toggles(s) =>
         /\ isPaused' = ~isPaused
         /\ UNCHANGED gameVars
         /\ isPaused' => (~turnTimer' /\ timeLeft' = timeLeft)
         /\ (~isPaused' /\ gameStatus = "active")
              => (turnTimer' /\ timeLeft' = TURN_TIME)]_vars

\* C22: pause_game flips the flag and changes nothing of the game, a resume
\* of an active game restarts the countdown at TURN_TIME, and while the
\* game stays paused timeLeft does not decrease.
C22_PauseToggle ==
  /\ C22_ToggleFrame
  /\ [][(isPaused /\ isPaused') => timeLeft' >= timeLeft]_vars

\* ------------------------------------------------------------------------
\* C23: while the sweeper is between clearing the timer of a room and
\* deleting the room, no step changes the game, the pause flag or the timer
\* of the room; and a room that is not in the registry has no turn timer.
C23_SweepAtomic ==
  /\ [](~Registered => ~turnTimer)
  /\ [][(sweeping /\ sweeping')
          => UNCHANGED <<gameVars, isPaused, turnTimer, timeLeft>>]_vars

\* the second half of C23 alone: the room is deleted with its timer running
C23_NoOrphanTimer ==
  ~Registered => ~turnTimer

\* ------------------------------------------------------------------------
\* C24: the branch of makeRandomMove for an empty list of available moves.
\* An active game always has an available move: a board without one has
\* all its edges drawn, so the move that drew the last of them found every
\* box and ended the game.
C24_ActiveHasMove ==
  gameStatus = "active" => Len(getAvailableMoves(lines, currentPlayer)) > 0

\* ------------------------------------------------------------------------
\* the unit edges of the grid, each once, as <<start, end>> from left to
\* right and from top to bottom
GridEdges ==
  {<<Coord(r, c), Coord(r, c + 1)>> :
     r \in 0..(GRID_SIZE - 1), c \in 0..(GRID_SIZE - 2)}
  \cup {<<Coord(r, c), Coord(r + 1, c)>> :
          r \in 0..(GRID_SIZE - 2), c \in 0..(GRID_SIZE - 1)}

\* the edge is among the lines, in one orientation or the other
InLines(e) ==
  \E i \in 1..Len(lines) :
    \/ lines[i].start = e[1] /\ lines[i].end = e[2]
    \/ lines[i].start = e[2] /\ lines[i].end = e[1]

EdgesIn(moves) == {<<moves[i].start, moves[i].end>> : i \in 1..Len(moves)}

\* C25: getAvailableMoves returns the edges of the grid that are not among
\* the lines in either orientation, each once and tagged with the player
\* given; the edges do not depend on the tag; the moves returned and the
\* edges of the grid among the lines add up to 2 * GRID_SIZE * (GRID_SIZE - 1).
C25_AvailableMoves ==
  \A p \in PlayerNumbers :
    LET moves == getAvailableMoves(lines, p)
    IN /\ EdgesIn(moves) = {e \in GridEdges : ~InLines(e)}
       /\ Cardinality(EdgesIn(moves)) = Len(moves)
       /\ \A i \in 1..Len(moves) : moves[i].player = p
       /\ Len(moves) + Cardinality({e \in GridEdges : InLines(e)})
            = 2 * GRID_SIZE * (GRID_SIZE - 1)

\* some edges are drawn, one of them from its end to its start, others are
\* still available
C25_Witness ==
  /\ Registered
  /\ gameStatus = "active"
  /\ Len(lines) >= 2
  /\ \E i \in 1..Len(lines) : lines[i] = FirstReversed(lines[i].player)
  /\ Len(getAvailableMoves(lines, currentPlayer)) = 2 * GRID_SIZE * (GRID_SIZE - 1) - Len(lines)

\* ------------------------------------------------------------------------
\* C26: the room never has more scheduled intervals than the one its
\* turnTimer field holds, so every tick is a tick of the current timer; a
\* make_move that leaves the game active leaves the timer running with
\* timeLeft = TURN_TIME; timeLeft changes only by a restart or by one per
\* tick; and a forced move is made by the tick that finds timeLeft = 1,
\* which is the TURN_TIME-th tick after the restart.
C26_OneTimer ==
  /\ [](intervals = IF turnTimer THEN 1 ELSE 0)
  /\ [][/\ (MoveApplied /\ gameStatus' = "active")
             => \A s \in Sockets, move \in AllPayloads :
                  Submitted(s, move) => (turnTimer' /\ timeLeft' = TURN_TIME)
        /\ \/ timeLeft' = timeLeft
           \/ timeLeft' = TURN_TIME
           \/ turnTimerTick /\ timeLeft' = timeLeft - 1
        /\ Forced => timeLeft = 1]_vars

\* two lines drawn, the timer restarted after the second and one tick gone
C26_Witness ==
  /\ Registered
  /\ gameStatus = "active"
  /\ ~isPaused
  /\ Len(lines) = 2
  /\ turnTimer
  /\ intervals = 1
  /\ timeLeft = TURN_TIME - 1

\* ------------------------------------------------------------------------
\* C27: an ended game whose room is in the registry is followed by a state
\* in which the room is not in the registry.
C27_EndedEvicted ==
  (Registered /\ gameStatus = "ended") ~> ~Registered

\* a handler touches a room that had been idle, and the room stays
Touched == inactive /\ ~inactive' /\ Registered /\ Registered'

\* C27 as the code has it: if from some point on no handler touches an idle
\* room, an ended game's room is eventually taken out of the registry.
C27_UntouchedEndedEvicted ==
  <>[][~Touched]_vars => C27_EndedEvicted

\* an ended game in an idle room that still has a player
C27_Witness ==
  /\ Registered
  /\ gameStatus = "ended"
  /\ inactive
  /\ DOMAIN players # {}
  /\ ~sweeping

\* ------------------------------------------------------------------------
\* C28: the step of a disconnect leaves the socket neither in the queue nor
\* in a room of the registry, and a join_queue handler that resumes after
\* its socket has disconnected puts the socket neither into the queue nor
\* into a room.
C28_DisconnectedStaysOut ==
  [][\A s \in Sockets :
       /\ disconnectQ(s)
            => /\ queueIndex(matchmakingQueue', s) = 0
               /\ \A id \in DOMAIN roomPlayers' : s \notin DOMAIN roomPlayers'[id]
       /\ join_queue_resumed_gone(s)
            => UNCHANGED <<matchmakingQueue, roomPlayers>>]_vars

\* ------------------------------------------------------------------------
\* the tick that finds timeLeft = 1 in an active game
Expires == turnTimerTick /\ gameStatus = "active" /\ timeLeft = 1

LeaveEvent == \E s \in Sockets : leave_room(s, NewRoomId) \/ disconnect(s)

\* C30: a game that has ended with every cell of the grid closed has a
\* winner, and a game enters the ended status without a winner only in a
\* step of leave_room or disconnect.
C30_WinnerUnlessDeparture ==
  /\ [](gameStatus = "ended" /\ Len(boxes) >= TOTAL_BOXES => winner # Null)
  /\ [][(gameStatus # "ended" /\ gameStatus' = "ended" /\ winner' = Null)
          => LeaveEvent]_vars

\* the grid is exhausted and the player with the cell has won
C30_Witness ==
  /\ gameStatus = "ended"
  /\ Len(boxes) = TOTAL_BOXES
  /\ TOTAL_BOXES % 2 = 1
  /\ winner # Null
  /\ scores[winner] > scores[Other(winner)]

\* a game ended without a winner
C30_WitnessNoWinner ==
  /\ gameStatus = "ended"
  /\ winner = Null
  /\ Len(boxes) < TOTAL_BOXES

\* ------------------------------------------------------------------------
\* the expiry that finds no available move: makeRandomMove returns null
NoMoveExpiry ==
  Expires /\ Len(getAvailableMoves(lines, currentPlayer)) = 0

\* C31: an active game has an available move for either player, so every
\* expiry of the timer in an active game appends exactly one line to the
\* lines drawn so far, and makeRandomMove never returns without a move.
C31_ExpiryAppendsOne ==
  /\ [](gameStatus = "active"
          => \A p \in PlayerNumbers : Len(getAvailableMoves(lines, p)) > 0)
  /\ [][Expires => /\ Len(lines') = Len(lines) + 1
                    /\ SubSeq(lines', 1, Len(lines)) = lines]_vars
  /\ [][~NoMoveExpiry]_vars

\* the expiry of the timer has drawn the last edge: timeLeft is 0 only
\* after an expiry that is not followed by a new countdown
C31_Witness ==
  /\ Registered
  /\ gameStatus = "ended"
  /\ timeLeft = 0
  /\ Len(lines) = 2 * GRID_SIZE * (GRID_SIZE - 1)
  /\ Len(boxes) = TOTAL_BOXES
  /\ winner # Null

====
